---- MODULE Spec2Model ----
(***************************************************************************)
(* Model of streamlit_analysis.py: the Talend migration analysis script.   *)
(* One script run is the sequence read_csv -> column validation ->         *)
(* groupby/agg -> categorisation -> scoring -> effort calculation; every   *)
(* upload and every committed widget value reruns the script from the top. *)
(*                                                                         *)
(* Numbers: baseline hours and multipliers are held in tenths (8.0 -> 80,  *)
(* 0.8 -> 8), estimated and total hours in hundredths of an hour, and      *)
(* total_days / total_weeks as exact fractions <<numerator, denominator>>. *)
(***************************************************************************)
EXTENDS Integers, Sequences, FiniteSets, TLC

\* ------------------------------------------------------------------ bounds
MaxRows == 2
MaxTypes == 3
MaxCount == 41
MaxEdits == 2

\* ---------------------------------------------------------------- taxonomy
snowflake_components ==
    {"tMap", "tSnowflakeCommit", "tSnowflakeClose",
     "tSnowflakeConnection", "tSnowflakeInput", "tSnowflakeOutput"}

utility_components ==
    {"tDie", "tSnowflakeConnection", "tSnowflakeClose", "tWarn"}

high_complexity_components ==
    {"tRunJob", "tJavaRow", "tJava", "tPerlRow", "tPython"}

db2_components ==
    {"tDB2Input", "tDB2Output", "tDB2Connection", "tDB2Close",
     "tDB2Commit", "tDB2Rollback", "tDB2Row", "tDB2BulkExec",
     "tDB2TableList", "tDB2SCD"}

oracle_components ==
    {"tOracleInput", "tOracleOutput", "tOracleConnection", "tOracleClose",
     "tOracleCommit", "tOracleRollback", "tOracleRow", "tOracleBulkExec",
     "tOracleTableList", "tOracleSCD"}

\* ------------------------------------------------------------- classifiers
categorize_size_off(count) ==
    IF count <= 10 THEN "Small"
    ELSE IF count <= 20 THEN "Medium"
    ELSE IF count <= 40 THEN "Large"
    ELSE "XLarge"

categorize_size(count) ==
    IF count < 10 THEN "Small"
    ELSE IF count < 20 THEN "Medium"
    ELSE IF count < 40 THEN "Large"
    ELSE "XLarge"

\* the High test placed before the Snowflake test, on the unsubtracted set
calculate_complexity_reordered(component_types) ==
    LET components_set == component_types
    IN  IF components_set \cap high_complexity_components # {} THEN "High"
        ELSE IF components_set \subseteq snowflake_components THEN "Low"
        ELSE "Medium"

\* the High test dropped
calculate_complexity_nohigh(component_types) ==
    LET complexity_relevant_components == component_types \ utility_components
    IN  IF complexity_relevant_components = {} THEN "Low"
        ELSE IF complexity_relevant_components \subseteq snowflake_components THEN "Low"
        ELSE "Medium"

\* the subset test replaced by an intersection test
calculate_complexity_anysnow(component_types) ==
    LET complexity_relevant_components == component_types \ utility_components
    IN  IF complexity_relevant_components = {} THEN "Low"
        ELSE IF complexity_relevant_components \cap snowflake_components # {} THEN "Low"
        ELSE IF \E comp \in complexity_relevant_components :
                    comp \in high_complexity_components THEN "High"
        ELSE "Medium"

calculate_complexity(component_types) ==
    LET components_set == component_types
        complexity_relevant_components == components_set \ utility_components
    IN  IF complexity_relevant_components = {} THEN "Low"
        ELSE IF complexity_relevant_components \subseteq snowflake_components THEN "Low"
        ELSE IF \E comp \in complexity_relevant_components :
                    comp \in high_complexity_components THEN "High"
        ELSE "Medium"

\* Snowflake tested first
categorize_database_usage_snowfirst(component_types) ==
    LET components_set == component_types
        has_db2 == components_set \cap db2_components # {}
        has_oracle == components_set \cap oracle_components # {}
        has_snowflake == components_set \cap snowflake_components # {}
    IN  IF has_snowflake THEN "Snowflake Only"
        ELSE IF has_db2 /\ has_oracle THEN "DB2 + Oracle"
        ELSE IF has_db2 THEN "DB2 Only"
        ELSE IF has_oracle THEN "Oracle Only"
        ELSE "Other/None"

categorize_database_usage(component_types) ==
    LET components_set == component_types
        has_db2 == components_set \cap db2_components # {}
        has_oracle == components_set \cap oracle_components # {}
        has_snowflake == components_set \cap snowflake_components # {}
    IN  IF has_db2 /\ has_oracle THEN "DB2 + Oracle"
        ELSE IF has_db2 THEN "DB2 Only"
        ELSE IF has_oracle THEN "Oracle Only"
        ELSE IF has_snowflake THEN "Snowflake Only"
        ELSE "Other/None"

\* ----------------------------------------------------------------- scoring
complexity_scores_flat == [Low |-> 1, Medium |-> 3, High |-> 3]

complexity_scores == [Low |-> 1, Medium |-> 3, High |-> 5]

size_multipliers == [Small |-> 1, Medium |-> 2, Large |-> 3, XLarge |-> 4]

\* --------------------------------------------------------------- read_csv
\* pandas' marker for a missing value
NaN == "NaN"

\* the cell texts pandas.read_csv turns into NaN by default
NaStrings ==
    {"", "#N/A", "#N/A N/A", "#NA", "-1.#IND", "-1.#QNAN", "-NaN", "-nan",
     "1.#IND", "1.#QNAN", "<NA>", "N/A", "NA", "NULL", "NaN", "None",
     "n/a", "nan", "null"}

ReadCell(text) == IF text \in NaStrings THEN NaN ELSE text

read_csv(rows) == [i \in 1..Len(rows) |-> [c \in DOMAIN rows[i] |-> ReadCell(rows[i][c])]]

expected_columns == {"file", "component_type", "unique_name"}

\* the test of line 33 with any() in place of all()
ColumnsValid_any(columns) == \E col \in expected_columns : col \in columns

ColumnsValid(columns) == \A col \in expected_columns : col \in columns

\* ------------------------------------------------------------ aggregation
\* df.groupby('file'): the group keys; rows whose key is NaN are dropped
GroupKeys(df_) == {df_[i]["file"] : i \in 1..Len(df_)} \ {NaN}

GroupRows(df_, f) == SelectSeq(df_, LAMBDA r : r["file"] = f)

\* 'count': the number of non-missing values of a column
Count(rows, col) == Cardinality({i \in 1..Len(rows) : rows[i][col] # NaN})

\* Series.unique(): the distinct values of a column, NaN among them
Unique(rows, col) == {rows[i][col] : i \in 1..Len(rows)}

aggregate(df_) ==
    [f \in GroupKeys(df_) |->
        [component_count   |-> Count(GroupRows(df_, f), "component_type"),
         component_types   |-> Unique(GroupRows(df_, f), "component_type"),
         unique_components |-> Count(GroupRows(df_, f), "unique_name")]]

\* ----------------------------------------------------------------- widgets
HourWidgets == {"small_hours", "medium_hours", "large_hours", "xlarge_hours"}
MultiplierWidgets == {"low_multiplier", "medium_multiplier", "high_multiplier"}
ResourceWidgets == {"num_resources", "hours_per_day", "days_per_week"}
Widgets == HourWidgets \cup MultiplierWidgets \cup ResourceWidgets

\* value= of each st.number_input (hours and multipliers in tenths)
DefaultValue ==
    [small_hours |-> 80, medium_hours |-> 160, large_hours |-> 320, xlarge_hours |-> 640,
     low_multiplier |-> 8, medium_multiplier |-> 10, high_multiplier |-> 15,
     num_resources |-> 3, hours_per_day |-> 8, days_per_week |-> 5]

\* min_value= of each st.number_input dropped to zero
MinValue_zero == [w \in Widgets |-> 0]

\* min_value= of each st.number_input (0.1 is 1 tenth)
MinValue == [w \in Widgets |-> 1]

\* what the user types into a number input: nothing valid below its minimum
OtherValue ==
    [small_hours |-> 100, medium_hours |-> 200, large_hours |-> 400, xlarge_hours |-> 800,
     low_multiplier |-> 5, medium_multiplier |-> 12, high_multiplier |-> 20,
     num_resources |-> 2, hours_per_day |-> 6, days_per_week |-> 4]

TypedValues(w) == {0, DefaultValue[w], OtherValue[w]}

\* ------------------------------------------------------------------ effort
size_hours_map(wv) ==
    [Small |-> wv["small_hours"], Medium |-> wv["medium_hours"],
     Large |-> wv["large_hours"], XLarge |-> wv["xlarge_hours"]]

complexity_multiplier_map(wv) ==
    [Low |-> wv["low_multiplier"], Medium |-> wv["medium_multiplier"],
     High |-> wv["high_multiplier"]]

\* the scorer's fixed weights used in place of the widget values
estimated_hours_fixed(size_category, complexity, wv) ==
    10 * size_multipliers[size_category] * 10 * complexity_scores[complexity]

\* hundredths of an hour: tenths of hours times tenths of a multiplier
estimated_hours(size_category, complexity, wv) ==
    size_hours_map(wv)[size_category] * complexity_multiplier_map(wv)[complexity]

RECURSIVE SumHours(_, _)
SumHours(fa, files) ==
    IF files = {} THEN 0
    ELSE LET f == CHOOSE x \in files : TRUE
         IN  fa[f]["estimated_hours"] + SumHours(fa, files \ {f})

\* total_hours / (num_resources * hours_per_day), total_hours in hundredths
TotalDays(hours, wv) == <<hours, 100 * (wv["num_resources"] * wv["hours_per_day"])>>

\* total_days / days_per_week
TotalWeeks(days, wv) == <<days[1], days[2] * wv["days_per_week"]>>

\* ------------------------------------------------------------------ inputs
AllColumns == {"index", "file", "component_type", "unique_name"}

FileCells == {"job1.kjb", "job2.kjb", ""}
TypeCells == {"tMap", "tRunJob", "tDB2Input", ""}
NameCells == {"c_1"}

Cells(col) == IF col = "file" THEN FileCells
              ELSE IF col = "component_type" THEN TypeCells
              ELSE NameCells

\* the rows a CSV with the given header can hold (the index column is not read)
RowsOver(columns) ==
    LET cols == columns \cap expected_columns
    IN  {r \in [cols -> FileCells \cup TypeCells \cup NameCells] :
            \A c \in cols : r[c] \in Cells(c)}

BoundedTables(columns) ==
    IF columns = {} THEN {<<>>}
    ELSE UNION {[1..n -> RowsOver(columns)] : n \in 0..MaxRows}

Row(f, t, n) == [file |-> f, component_type |-> t, unique_name |-> n]

\* the example table of lines 399-404
ExampleRows ==
    <<Row("job1.kjb", "tMap", "tMap_1"),
      Row("job1.kjb", "tSnowflakeOutput", "tSnowflakeOutput_1"),
      Row("job2.kjb", "tRunJob", "tRunJob_1"),
      Row("job2.kjb", "tMap", "tMap_2"),
      Row("job3.kjb", "tSnowflakeInput", "tSnowflakeInput_1")>>

RepeatRows(f, t, n) == [i \in 1..n |-> Row(f, t, "c_1")]

\* one-file tables of every size category and complexity level
SizedTables ==
    {RepeatRows("job1.kjb", t, n) : t \in {"tMap", "tLogRow", "tJava"}, n \in {9, 10, 20, 40}}

EffortTables == {ExampleRows} \cup SizedTables

\* every component type the script names, one it does not, and an empty cell
AllTypes ==
    snowflake_components \cup utility_components \cup high_complexity_components
        \cup db2_components \cup oracle_components \cup {"tLogRow", ""}

RECURSIVE TypeSetsUpTo(_)
TypeSetsUpTo(k) ==
    IF k = 0 THEN {{}}
    ELSE LET P == TypeSetsUpTo(k - 1)
         IN  P \cup {S \cup {t} : S \in P, t \in AllTypes}

RECURSIVE SetToSeq(_)
SetToSeq(S) ==
    IF S = {} THEN <<>>
    ELSE LET x == CHOOSE y \in S : TRUE IN <<x>> \o SetToSeq(S \ {x})

\* one row per component type of T, all of one file
RowsOfTypes(f, T) ==
    LET ts == SetToSeq(T) IN [i \in 1..Len(ts) |-> Row(f, ts[i], "c_1")]

\* tables with 1..MaxCount rows, and tables with every type set of up to MaxTypes types
ClassifyTables ==
    {RepeatRows("job1.kjb", "tMap", n) : n \in 1..MaxCount}
        \cup {RowsOfTypes("job1.kjb", T) : T \in TypeSetsUpTo(MaxTypes) \ {{}}}

\* ------------------------------------------------------------------- state
VARIABLES
    uploaded_file,  \* the uploaded CSV: its header and its rows of cell texts
    pc,             \* where the script run stands
    df,             \* the DataFrame read_csv returned
    file_analysis,  \* file |-> the columns of its file_analysis row
    widget_value,   \* the value each number input returns to the script
    entered,        \* the text each number input shows, as last typed
    total_hours,
    total_days,
    total_weeks,
    display         \* the elements the run has put on the page

vars == <<uploaded_file, pc, df, file_analysis, widget_value, entered,
          total_hours, total_days, total_weeks, display>>

NoFile == [columns |-> {}, rows |-> <<>>]

\* a run that has ended: completed, stopped by st.stop(), or in the except handler
Finished == pc \in {"done", "stopped", "except"}

\* a rerun starts the script from the top: its locals and the page are rebuilt
Rerun ==
    /\ pc' = "start"
    /\ df' = <<>>
    /\ file_analysis' = <<>>
    /\ total_hours' = 0
    /\ total_days' = <<0, 1>>
    /\ total_weeks' = <<0, 1>>
    /\ display' = {}

Init ==
    /\ uploaded_file = NoFile
    /\ pc = "no_file"
    /\ df = <<>>
    /\ file_analysis = <<>>
    /\ widget_value = DefaultValue
    /\ entered = DefaultValue
    /\ total_hours = 0
    /\ total_days = <<0, 1>>
    /\ total_weeks = <<0, 1>>
    /\ display = {"upload_prompt"}

\* ----------------------------------------------------------------- uploads
\* a file is put into the empty uploader (replacing a file is modelled as
\* removing it and uploading the next: the states reached are the same)
UploadFile(columns, rows) ==
    /\ pc = "no_file"
    /\ uploaded_file' = [columns |-> columns, rows |-> rows]
    /\ Rerun
    /\ UNCHANGED <<widget_value, entered>>

\* the file is removed from the uploader: the rerun takes the else branch, and
\* the number inputs, no longer on the page, lose their values
RemoveFile ==
    /\ Finished
    /\ uploaded_file' = NoFile
    /\ pc' = "no_file"
    /\ df' = <<>>
    /\ file_analysis' = <<>>
    /\ widget_value' = DefaultValue
    /\ entered' = DefaultValue
    /\ total_hours' = 0
    /\ total_days' = <<0, 1>>
    /\ total_weeks' = <<0, 1>>
    /\ display' = {"upload_prompt"}

Upload ==
    \E columns \in SUBSET AllColumns : \E rows \in BoundedTables(columns) :
        UploadFile(columns, rows)

UploadEffort == \E rows \in EffortTables : UploadFile(AllColumns, rows)

\* -------------------------------------------------------------- script run
\* pd.read_csv on a file with no columns raises; the handler reports it
ReadCsvFail ==
    /\ pc = "start"
    /\ uploaded_file.columns = {}
    /\ pc' = "except"
    /\ display' = display \cup {"error_processing"}
    /\ UNCHANGED <<uploaded_file, df, file_analysis, widget_value, entered,
                   total_hours, total_days, total_weeks>>

ReadCsvOk ==
    /\ pc = "start"
    /\ uploaded_file.columns # {}
    /\ df' = read_csv(uploaded_file.rows)
    /\ display' = display \cup {"success"}
    /\ pc' = "read"
    /\ UNCHANGED <<uploaded_file, file_analysis, widget_value, entered,
                   total_hours, total_days, total_weeks>>

\* st.error and st.stop(): the run ends here
ValidateFail ==
    /\ pc = "read"
    /\ ~ColumnsValid(uploaded_file.columns)
    /\ display' = display \cup {"error_columns"}
    /\ pc' = "stopped"
    /\ UNCHANGED <<uploaded_file, df, file_analysis, widget_value, entered,
                   total_hours, total_days, total_weeks>>

ValidateOk ==
    /\ pc = "read"
    /\ ColumnsValid(uploaded_file.columns)
    /\ display' = display \cup {"data_overview"}
    /\ pc' = "validated"
    /\ UNCHANGED <<uploaded_file, df, file_analysis, widget_value, entered,
                   total_hours, total_days, total_weeks>>

AggregateOk ==
    /\ pc = "validated"
    /\ expected_columns \subseteq uploaded_file.columns
    /\ file_analysis' = aggregate(df)
    /\ pc' = "aggregated"
    /\ UNCHANGED <<uploaded_file, df, widget_value, entered,
                   total_hours, total_days, total_weeks, display>>

\* a missing column is a KeyError; whether a table with no group at all gets
\* through agg and the charts is left to pandas and plotly: it may raise
AggregateFail ==
    /\ pc = "validated"
    /\ \/ ~(expected_columns \subseteq uploaded_file.columns)
       \/ GroupKeys(df) = {}
    /\ pc' = "except"
    /\ display' = display \cup {"error_processing"}
    /\ UNCHANGED <<uploaded_file, df, file_analysis, widget_value, entered,
                   total_hours, total_days, total_weeks>>

Classify ==
    /\ pc = "aggregated"
    /\ file_analysis' =
        [f \in DOMAIN file_analysis |->
            file_analysis[f] @@
            [size_category  |-> categorize_size(file_analysis[f]["component_count"]),
             complexity     |-> calculate_complexity(file_analysis[f]["component_types"]),
             database_usage |-> categorize_database_usage(file_analysis[f]["component_types"])]]
    /\ pc' = "classified"
    /\ UNCHANGED <<uploaded_file, df, widget_value, entered,
                   total_hours, total_days, total_weeks, display>>

Score ==
    /\ pc = "classified"
    /\ file_analysis' =
        [f \in DOMAIN file_analysis |->
            file_analysis[f] @@
            [complexity_score |->
                complexity_scores[file_analysis[f]["complexity"]]
                    * size_multipliers[file_analysis[f]["size_category"]]]]
    /\ display' = display \cup {"analysis_table", "visualizations"}
    /\ pc' = "scored"
    /\ UNCHANGED <<uploaded_file, df, widget_value, entered,
                   total_hours, total_days, total_weeks>>

Estimate ==
    /\ pc = "scored"
    /\ LET fa == [f \in DOMAIN file_analysis |->
                    file_analysis[f] @@
                    [estimated_hours |->
                        estimated_hours(file_analysis[f]["size_category"],
                                        file_analysis[f]["complexity"], widget_value)]]
           hours == SumHours(fa, DOMAIN fa)
           days == TotalDays(hours, widget_value)
       IN  /\ file_analysis' = fa
           /\ total_hours' = hours
           /\ total_days' = days
           /\ total_weeks' = TotalWeeks(days, widget_value)
    /\ display' = display \cup {"effort_calculator", "effort_results", "download"}
    /\ pc' = "done"
    /\ UNCHANGED <<uploaded_file, df, widget_value, entered>>

\* ----------------------------------------------------------- number inputs
Edited(e) == Cardinality({w \in Widgets : e[w] # DefaultValue[w]})

\* a typed value at or above min_value is committed and reruns the script
WidgetCommit ==
    \E w \in Widgets : \E v \in TypedValues(w) :
        /\ "effort_calculator" \in display
        /\ v >= MinValue[w]
        /\ entered' = [entered EXCEPT ![w] = v]
        /\ Edited(entered') <= MaxEdits
        /\ widget_value' = [widget_value EXCEPT ![w] = v]
        /\ Rerun
        /\ UNCHANGED uploaded_file

\* a typed value below min_value stays in the field and is not committed
WidgetReject ==
    \E w \in Widgets : \E v \in TypedValues(w) :
        /\ "effort_calculator" \in display
        /\ v < MinValue[w]
        /\ entered' = [entered EXCEPT ![w] = v]
        /\ Edited(entered') <= MaxEdits
        /\ UNCHANGED <<uploaded_file, pc, df, file_analysis, widget_value,
                       total_hours, total_days, total_weeks, display>>

\* ---------------------------------------------------------- specifications
Run == ReadCsvOk \/ ValidateOk \/ AggregateOk \/ Classify \/ Score \/ Estimate

\* uploads of small tables under every header
Next == Upload \/ RemoveFile \/ ReadCsvFail \/ ValidateFail \/ AggregateFail \/ Run

Spec == Init /\ [][Next]_vars

\* uploads of tables of every size and complexity, and the number inputs
NextEffort == UploadEffort \/ RemoveFile \/ WidgetCommit \/ WidgetReject \/ Run

SpecEffort == Init /\ [][NextEffort]_vars

\* one run over each table of ClassifyTables
InitClassify ==
    /\ uploaded_file \in {[columns |-> AllColumns, rows |-> rows] : rows \in ClassifyTables}
    /\ pc = "start"
    /\ df = <<>>
    /\ file_analysis = <<>>
    /\ widget_value = DefaultValue
    /\ entered = DefaultValue
    /\ total_hours = 0
    /\ total_days = <<0, 1>>
    /\ total_weeks = <<0, 1>>
    /\ display = {}

SpecClassify == InitClassify /\ [][Run]_vars

\* ================================================================== claims
Classified == pc \in {"classified", "scored", "done"}
Scored == pc \in {"scored", "done"}
Files == DOMAIN file_analysis

\* C1: categorize_size(c) is Small iff c < 10, Medium iff 10 <= c < 20, Large iff
\* 20 <= c < 40 and XLarge iff c >= 40, for every component_count c a run computes.
C1_SizeThresholds ==
    Classified =>
        \A f \in Files :
            LET c == file_analysis[f]["component_count"]
                s == file_analysis[f]["size_category"]
            IN  /\ (s = "Small")  <=> (c < 10)
                /\ (s = "Medium") <=> (10 <= c /\ c < 20)
                /\ (s = "Large")  <=> (20 <= c /\ c < 40)
                /\ (s = "XLarge") <=> (c >= 40)

\* C1 witness: a file of exactly 40 components has been categorised XLarge.
C1_Witness ==
    /\ Classified
    /\ \E f \in Files : /\ file_analysis[f]["component_count"] = 40
                        /\ file_analysis[f]["size_category"] = "XLarge"

\* C2: a type set that, less the utility components, is empty or lies within the
\* Snowflake components is of Low complexity.
C2_LowWhenOnlySnowflake ==
    Classified =>
        \A f \in Files :
            LET T == file_analysis[f]["component_types"]
                rest == T \ {"tDie", "tSnowflakeConnection", "tSnowflakeClose", "tWarn"}
            IN  (rest \subseteq {"tMap", "tSnowflakeCommit", "tSnowflakeClose",
                                 "tSnowflakeConnection", "tSnowflakeInput",
                                 "tSnowflakeOutput"})
                    => file_analysis[f]["complexity"] = "Low"

\* C2 witness: utility components alongside Snowflake ones, classified Low.
C2_Witness ==
    /\ Classified
    /\ \E f \in Files :
        /\ file_analysis[f]["component_types"] = {"tDie", "tSnowflakeConnection", "tMap"}
        /\ file_analysis[f]["complexity"] = "Low"

\* C3: a type set holding any high-complexity component is of High complexity,
\* whatever else it holds.
C3_HighWhenAnyHighComponent ==
    Classified =>
        \A f \in Files :
            (file_analysis[f]["component_types"]
                \cap {"tRunJob", "tJavaRow", "tJava", "tPerlRow", "tPython"} # {})
                => file_analysis[f]["complexity"] = "High"

\* C3 witness: a high-complexity component next to a Snowflake and a utility
\* component, classified High.
C3_Witness ==
    /\ Classified
    /\ \E f \in Files :
        /\ file_analysis[f]["component_types"] = {"tPython", "tSnowflakeInput", "tWarn"}
        /\ file_analysis[f]["complexity"] = "High"

\* C4: database_usage is "DB2 + Oracle" when both a DB2 and an Oracle component
\* are present, else "DB2 Only", else "Oracle Only", else "Snowflake Only" when a
\* Snowflake component is present, else "Other/None"; tested on the full type set.
C4_DatabasePrecedence ==
    Classified =>
        \A f \in Files :
            LET T == file_analysis[f]["component_types"]
                u == file_analysis[f]["database_usage"]
                db2 == \E t \in T : t \in db2_components
                ora == \E t \in T : t \in oracle_components
                snow == \E t \in T : t \in snowflake_components
            IN  /\ (u = "DB2 + Oracle")   <=> (db2 /\ ora)
                /\ (u = "DB2 Only")       <=> (db2 /\ ~ora)
                /\ (u = "Oracle Only")    <=> (ora /\ ~db2)
                /\ (u = "Snowflake Only") <=> (snow /\ ~db2 /\ ~ora)
                /\ (u = "Other/None")     <=> (~snow /\ ~db2 /\ ~ora)

\* C4 witness: DB2, Oracle and Snowflake components together, labelled "DB2 + Oracle".
C4_Witness ==
    /\ Classified
    /\ \E f \in Files :
        /\ file_analysis[f]["component_types"] = {"tDB2Row", "tOracleInput", "tSnowflakeOutput"}
        /\ file_analysis[f]["database_usage"] = "DB2 + Oracle"

\* C10: a file of Low complexity has database_usage "Snowflake Only" or
\* "Other/None": a file with a DB2 or Oracle component is never Low.
C10_LowHasNoLegacyDatabase ==
    Classified =>
        \A f \in Files :
            file_analysis[f]["complexity"] = "Low"
                => file_analysis[f]["database_usage"] \in {"Snowflake Only", "Other/None"}

\* C10 witness: a Low file labelled "Snowflake Only", its utility component aside.
C10_Witness ==
    /\ Classified
    /\ \E f \in Files :
        /\ file_analysis[f]["component_types"] = {"tSnowflakeCommit", "tDie"}
        /\ file_analysis[f]["complexity"] = "Low"
        /\ file_analysis[f]["database_usage"] = "Snowflake Only"

RECURSIVE SumOfEstimates(_)
SumOfEstimates(S) ==
    IF S = {} THEN 0
    ELSE LET f == CHOOSE x \in S : TRUE
         IN  file_analysis[f]["estimated_hours"] + SumOfEstimates(S \ {f})

\* C5: each file's estimated_hours is the baseline hours entered for its size
\* times the multiplier entered for its complexity; total_hours is their sum,
\* total_days = total_hours / (developers * hours_per_day) and total_weeks =
\* total_days / days_per_week; the example table under the default values gives
\* 6.4, 12.0 and 6.4 hours, 24.8 in total, 31/30 days and 31/150 weeks.
C5_EffortArithmetic ==
    pc = "done" =>
        /\ \A f \in Files :
            LET s == file_analysis[f]["size_category"]
                c == file_analysis[f]["complexity"]
                base == CASE s = "Small"  -> widget_value["small_hours"]
                          [] s = "Medium" -> widget_value["medium_hours"]
                          [] s = "Large"  -> widget_value["large_hours"]
                          [] s = "XLarge" -> widget_value["xlarge_hours"]
                mult == CASE c = "Low"    -> widget_value["low_multiplier"]
                          [] c = "Medium" -> widget_value["medium_multiplier"]
                          [] c = "High"   -> widget_value["high_multiplier"]
            IN  file_analysis[f]["estimated_hours"] = base * mult
        /\ total_hours = SumOfEstimates(Files)
        /\ total_days[2] # 0
        /\ total_days[1] * (100 * widget_value["num_resources"] * widget_value["hours_per_day"])
              = total_hours * total_days[2]
        /\ total_weeks[2] # 0
        /\ total_weeks[1] * widget_value["days_per_week"] * total_days[2]
              = total_days[1] * total_weeks[2]
        /\ (uploaded_file.rows = ExampleRows /\ widget_value = DefaultValue) =>
              /\ file_analysis["job1.kjb"]["estimated_hours"] = 640
              /\ file_analysis["job2.kjb"]["estimated_hours"] = 1200
              /\ file_analysis["job3.kjb"]["estimated_hours"] = 640
              /\ total_hours = 2480
              /\ total_days[1] * 30 = 31 * total_days[2]
              /\ total_weeks[1] * 150 = 31 * total_weeks[2]

\* C5 witness: the example table estimated with 10.0 baseline hours for Small and
\* a 0.5 multiplier for Low entered in place of the defaults.
C5_Witness ==
    /\ pc = "done"
    /\ uploaded_file.rows = ExampleRows
    /\ widget_value["small_hours"] = 100
    /\ widget_value["low_multiplier"] = 5
    /\ file_analysis["job1.kjb"]["estimated_hours"] = 500
    /\ total_hours = 2500

\* C6: complexity_score is the fixed complexity weight (Low 1, Medium 3, High 5)
\* times the fixed size weight (Small 1, Medium 2, Large 3, XLarge 4), whatever
\* the number inputs hold; files alike in size and complexity score alike.
C6_ScoreFixedWeights ==
    Scored =>
        /\ \A f \in Files :
            LET s == file_analysis[f]["size_category"]
                c == file_analysis[f]["complexity"]
                sw == CASE s = "Small" -> 1 [] s = "Medium" -> 2
                        [] s = "Large" -> 3 [] s = "XLarge" -> 4
                cw == CASE c = "Low" -> 1 [] c = "Medium" -> 3 [] c = "High" -> 5
            IN  file_analysis[f]["complexity_score"] = cw * sw
        /\ \A f, g \in Files :
            (/\ file_analysis[f]["size_category"] = file_analysis[g]["size_category"]
             /\ file_analysis[f]["complexity"] = file_analysis[g]["complexity"])
                => file_analysis[f]["complexity_score"] = file_analysis[g]["complexity_score"]

\* C6 witness: an XLarge High file scored 20 while the number inputs hold other
\* values than the defaults.
C6_Witness ==
    /\ pc = "done"
    /\ widget_value["xlarge_hours"] # 640
    /\ widget_value["high_multiplier"] # 15
    /\ \E f \in Files : /\ file_analysis[f]["size_category"] = "XLarge"
                        /\ file_analysis[f]["complexity"] = "High"
                        /\ file_analysis[f]["complexity_score"] = 20

InvalidResourceEntered == \E w \in ResourceWidgets : entered[w] < 1

\* C7 as stated: once developers, hours_per_day or days_per_week is entered as a
\* value below 1, the run reports a ParameterError and shows no estimate.
C7_ParameterErrorRaised ==
    InvalidResourceEntered =>
        /\ "parameter_error" \in display
        /\ "effort_results" \notin display

\* C7 as amended: a value below 1 entered for developers, hours_per_day or
\* days_per_week is never handed to the script; no error is reported, and every
\* estimate divides by positive numbers, so total_days and total_weeks are finite.
C7_ResourcesStayPositive ==
    /\ \A w \in ResourceWidgets : widget_value[w] >= 1
    /\ display \cap {"parameter_error", "error_processing", "error_columns"} = {}
    /\ pc = "done" => (total_days[2] > 0 /\ total_weeks[2] > 0)

\* C7 witness: 0 is in the developers field and the estimate on the page is the
\* one made with the last accepted value.
C7_Witness ==
    /\ pc = "done"
    /\ entered["num_resources"] = 0
    /\ widget_value["num_resources"] = 2
    /\ "effort_results" \in display

HeaderComplete == {"file", "component_type", "unique_name"} \subseteq uploaded_file.columns

\* C8: a table lacking a required column gets no further than the column check:
\* nothing is aggregated, classified, scored or estimated, no result is shown,
\* and the finished run has reported the failure; with the three columns
\* present, an index column beside them raises no column error.
C8_MissingColumnStops ==
    /\ (pc # "no_file" /\ ~HeaderComplete) =>
          /\ pc \in {"start", "read", "stopped", "except"}
          /\ file_analysis = <<>>
          /\ total_hours = 0
          /\ display \cap {"data_overview", "analysis_table", "visualizations",
                           "effort_calculator", "effort_results", "download"} = {}
          /\ Finished => display \cap {"error_columns", "error_processing"} # {}
    /\ HeaderComplete => (pc # "stopped" /\ "error_columns" \notin display)

\* C8 witness: a table with only the file and unique_name columns, stopped at
\* the column check with the error on the page.
C8_Witness ==
    /\ uploaded_file.columns = {"file", "unique_name"}
    /\ Len(uploaded_file.rows) > 0
    /\ pc = "stopped"
    /\ "error_columns" \in display

\* C8 witness of the index column: a table with all four columns run to the end.
C8_IndexWitness ==
    /\ "index" \in uploaded_file.columns
    /\ pc = "done"
    /\ Files # {}

RowsOfFile(f) == {i \in 1..Len(df) : df[i]["file"] = f}

\* C9 as stated: every file of the table read has exactly one FileRecord, whose
\* component_count is the number of its rows and whose component_types are the
\* distinct component_type values of those rows, so that component_count >=
\* |component_types|.
C9_OneRecordPerFile ==
    pc \in {"aggregated", "classified", "scored", "done"} =>
        /\ Files = {df[i]["file"] : i \in 1..Len(df)} \ {NaN}
        /\ \A f \in Files :
            /\ file_analysis[f]["component_count"] = Cardinality(RowsOfFile(f))
            /\ file_analysis[f]["component_types"]
                  = {df[i]["component_type"] : i \in RowsOfFile(f)}
            /\ file_analysis[f]["component_count"]
                  >= Cardinality(file_analysis[f]["component_types"])

\* The same with no cell of the table missing: there the aggregation is as C9 says.
C9_HoldsWithoutMissingCells ==
    (/\ pc \in {"aggregated", "classified", "scored", "done"}
     /\ \A i \in 1..Len(df) : \A c \in DOMAIN df[i] : df[i][c] # NaN) =>
        /\ Files = {uploaded_file.rows[i]["file"] : i \in 1..Len(df)}
        /\ \A f \in Files :
            /\ file_analysis[f]["component_count"] = Cardinality(RowsOfFile(f))
            /\ file_analysis[f]["component_types"]
                  = {uploaded_file.rows[i]["component_type"] : i \in RowsOfFile(f)}
            /\ file_analysis[f]["component_count"]
                  >= Cardinality(file_analysis[f]["component_types"])

====
